---- MODULE Spec2Model ----
(***************************************************************************)
(* Model of src/app.py: the Streamlit script that rasterizes an uploaded   *)
(* PDF, calls the vision model once per page under a tenacity retry        *)
(* policy, collects the parsed replies in all_data and builds the result   *)
(* table through the "column guard".                                       *)
(***************************************************************************)
EXTENDS Integers, Sequences, FiniteSets, TLC

\* ---------------------------------------------------------------- bounds
MaxPages == 3

MaxRecords == 2

\* ------------------------------------------------------ program constants
MaxAttempts == 3
Multiplier == 2
MinWait == 10
MaxWait == 60
PageDelay == 5

VARIABLES secrets, client, pc, uploaded_file, images, i, attempt, response,
          requests, waits, sleeps, all_data, outcomes, progress, df, message

vars == <<secrets, client, pc, uploaded_file, images, i, attempt, response,
          requests, waits, sleeps, all_data, outcomes, progress, df, message>>

\* ------------------------------------------------------------ arithmetic
Max2(a, b) == IF a >= b THEN a ELSE b

Min2(a, b) == IF a <= b THEN a ELSE b

RECURSIVE Pow2(_)
Pow2(n) == IF n <= 0 THEN 1 ELSE 2 * Pow2(n - 1)

\* ------------------------------------------------------- schema registry
target_cols ==
  << "Buyer Name", "Consignee name", "Tax Invoice Number", "Invoice Date",
     "Order", "Place of supply", "Delivery From", "Product",
     "Description of Goods", "Net Wt (MT)", "Transporter",
     "Vehicle Number", "Unit Rate/MT", "Discount/MT",
     "Invoice Value", "Invoice Value with GST" >>

SeqToSet(s) == { s[k] : k \in 1 .. Len(s) }

\* ---------------------------------------------------------- JSON values
\* A JSON object is the ordered sequence of its <<key, value>> members; an
\* array and a number carry no members.
JObject(members) == [kind |-> "object", members |-> members]

JArray == [kind |-> "array", members |-> <<>>]

JNumber == [kind |-> "number", members |-> <<>>]

Keys(v) == { v.members[k][1] : k \in 1 .. Len(v.members) }

Get(v, key) ==
  LET k == CHOOSE k \in 1 .. Len(v.members) : v.members[k][1] = key
  IN  v.members[k][2]

ObjSubset == JObject(<< <<"Buyer Name", "ZETWERK">>, <<"Order", "32012345">> >>)

ObjOther == JObject(<< <<"Product", "Alloy">> >>)

ObjForeign == JObject(<< <<"Remarks", "urgent">> >>)

ObjSuperset ==
  JObject(<< <<"Remarks", "urgent">> >> \o
          [k \in 1 .. Len(target_cols) |-> <<target_cols[k], "NALCO">>])

JsonValues == {ObjSubset, ObjOther, ObjForeign, ObjSuperset, JArray, JNumber}

\* ------------------------------------------------- replies of the service
\* What one generate_content call can do: raise, or return a response whose
\* text is bare JSON, JSON inside a markdown code fence, or no JSON at all.
NoReply == [kind |-> "none", body |-> JNumber]

Replies ==
  { [kind |-> "json", body |-> v] : v \in JsonValues }
  \cup { [kind |-> "fenced", body |-> ObjOther],
         [kind |-> "text", body |-> JNumber],
         [kind |-> "error", body |-> JNumber] }

\* json.loads(response.text): only bare JSON text parses; whatever JSON value
\* it denotes is returned as is.
json_loads(r) ==
  IF r.kind = "json" THEN [ok |-> TRUE, value |-> r.body]
  ELSE [ok |-> FALSE, value |-> JNumber]

\* One pass through the body of get_llm_extraction: the call raises, or
\* json.loads raises (both re-raised by the except clause), or the parsed
\* value is returned.
get_llm_extraction(r) ==
  IF r.kind = "error" THEN [ok |-> FALSE, value |-> JNumber]
  ELSE json_loads(r)

\* -------------------------------------------------------- retry policy
stop_after_attempt_early(n) == n >= MaxAttempts - 1

\* stop=stop_after_attempt(3)
stop_after_attempt(n) == n >= MaxAttempts

wait_exponential_no_floor(n) == Min2(Multiplier * Pow2(n - 1), MaxWait)

\* wait=wait_exponential(multiplier=2, min=10, max=60): the wait after failed
\* attempt n is multiplier * 2^(n-1), clamped into [min, max].
wait_exponential(n) ==
  Max2(Max2(0, MinWait), Min2(Multiplier * Pow2(n - 1), MaxWait))

\* ------------------------------------------------------------ data frame
\* Cells are tagged so that a string taken from a reply can never be mistaken
\* for the float nan pandas puts where a record has no value for a column.
Str(s) == <<"str", s>>

NaN == <<"float", "nan">>

None == <<"NoneType", "None">>

PyObj(v) == <<"object", v.kind>>

NoFrame == [columns |-> <<>>, rows |-> <<>>, raised |-> FALSE]

RaisedFrame == [columns |-> <<>>, rows |-> <<>>, raised |-> TRUE]

KeySeq(v) == [k \in 1 .. Len(v.members) |-> v.members[k][1]]

RECURSIVE AllKeys(_)
AllKeys(data) ==
  IF data = <<>> THEN <<>>
  ELSE KeySeq(Head(data)) \o AllKeys(Tail(data))

\* The distinct elements of s in the order of their first occurrence.
Unique(s) ==
  LET firsts == { k \in 1 .. Len(s) : \A j \in 1 .. k - 1 : s[j] # s[k] }
      rank(k) == Cardinality({ j \in firsts : j <= k })
  IN  [n \in 1 .. Cardinality(firsts) |->
        s[CHOOSE k \in firsts : rank(k) = n]]

RECURSIVE MaxWidth(_)
MaxWidth(data) ==
  IF data = <<>> THEN 0
  ELSE Max2(Len(Head(data).members), MaxWidth(Tail(data)))

ColIndex(columns, c) == CHOOSE j \in 1 .. Len(columns) : columns[j] = c

\* pd.DataFrame(all_data) on a non-empty list.  The first element decides
\* the construction: a list of dicts takes the union of the keys in first-seen
\* order and leaves nan where a record lacks a key (and raises on an element
\* that has no keys()); a list of lists is laid out positionally (and raises
\* on an element without len()); anything else becomes one object column.
DataFrame(data) ==
  LET first == data[1]
      n == Len(data)
  IN  IF first.kind = "object" THEN
        IF \E k \in 1 .. n : data[k].kind # "object" THEN RaisedFrame
        ELSE LET columns == Unique(AllKeys(data))
             IN  [columns |-> columns,
                  rows |-> [k \in 1 .. n |->
                             [c \in SeqToSet(columns) |->
                               IF c \in Keys(data[k])
                               THEN Str(Get(data[k], c)) ELSE NaN]],
                  raised |-> FALSE]
      ELSE IF first.kind = "array" THEN
        IF \E k \in 1 .. n : data[k].kind = "number" THEN RaisedFrame
        ELSE LET columns == [j \in 1 .. MaxWidth(data) |-> ToString(j - 1)]
             IN  [columns |-> columns,
                  rows |-> [k \in 1 .. n |->
                             [c \in SeqToSet(columns) |->
                               IF ColIndex(columns, c) <= Len(data[k].members)
                               THEN Str(data[k].members[ColIndex(columns, c)][1])
                               ELSE None]],
                  raised |-> FALSE]
      ELSE [columns |-> <<"0">>,
            rows |-> [k \in 1 .. n |-> [c \in {"0"} |-> PyObj(data[k])]],
            raised |-> FALSE]

\* for col in target_cols: if col not in df.columns: df[col] = "Not Found"
\* Every schema column the frame lacks is appended, in schema order, with
\* the sentinel in every row; columns the frame has are left as they are.
FillMissing(d) ==
  LET present == SeqToSet(d.columns)
      missing == SelectSeq(target_cols, LAMBDA col : col \notin present)
  IN  [columns |-> d.columns \o missing,
       rows |-> [r \in 1 .. Len(d.rows) |->
                  [c \in present \cup SeqToSet(missing) |->
                    IF c \in present THEN d.rows[r][c]
                    ELSE Str("Not Found")]],
       raised |-> FALSE]

Select_keep_all(d, cols) == d

Select_shifted(d, cols) ==
  [columns |-> cols,
   rows |-> [r \in 1 .. Len(d.rows) |->
              [c \in SeqToSet(cols) |->
                d.rows[r][cols[(ColIndex(cols, c) % Len(cols)) + 1]]]],
   raised |-> FALSE]

\* df = df[target_cols]
Select(d, cols) ==
  [columns |-> cols,
   rows |-> [r \in 1 .. Len(d.rows) |->
              [c \in SeqToSet(cols) |-> d.rows[r][c]]],
   raised |-> FALSE]

ColumnGuard(d) == Select(FillMissing(d), target_cols)

\* ------------------------------------------------------------- page loop
Collect_always(data, res) == Append(data, res.value)

\* extracted_json = get_llm_extraction(img); all_data.append(extracted_json)
\* The append is reached only when the call returned.
Collect(data, res) == IF res.ok THEN Append(data, res.value) ELSE data

Outcome(page, kind) == [page |-> page, kind |-> kind]

OnSuccess(outs, page) == Append(outs, Outcome(page, "Success"))

OnException_silent(outs, page) == outs

\* except Exception: st.warning("Page i+1 was skipped ...")
OnException(outs, page) == Append(outs, Outcome(page, "Failure"))

NextIndex_repeat(idx, failed) == IF failed THEN idx ELSE idx + 1

NextIndex_abort(idx, failed) == IF failed THEN Len(images) ELSE idx + 1

\* enumerate(images): the index the loop goes on with after the body ran for
\* idx, whether the body ended normally or in the except clause.
NextIndex(idx, failed) == idx + 1

LoopPc(idx) == IF idx < Len(images) THEN "call" ELSE "aggregate"

\* ------------------------------------------------------------------ Init
Init ==
  /\ secrets \in BOOLEAN
  /\ client = FALSE
  /\ pc = "startup"
  /\ uploaded_file = "none"
  /\ images = <<>>
  /\ i = 0
  /\ attempt = 1
  /\ response = NoReply
  /\ requests = <<>>
  /\ waits = <<>>
  /\ sleeps = <<>>
  /\ all_data = <<>>
  /\ outcomes = <<>>
  /\ progress = <<0, 1>>
  /\ df = NoFrame
  /\ message = "none"

\* ---------------------------------------------------------------- actions
Startup_no_stop ==
  /\ pc = "startup"
  /\ client' = TRUE
  /\ pc' = "ready"
  /\ message' = IF secrets THEN message ELSE "API Key not found"
  /\ UNCHANGED <<secrets, uploaded_file, images, i, attempt, response,
                 requests, waits, sleeps, all_data, outcomes, progress, df>>

\* Module start: read the key from st.secrets, stop the script without it,
\* otherwise create the client.
Startup ==
  /\ pc = "startup"
  /\ IF secrets
     THEN /\ client' = TRUE
          /\ pc' = "ready"
          /\ message' = message
     ELSE /\ client' = client
          /\ pc' = "stopped"
          /\ message' = "API Key not found"
  /\ UNCHANGED <<secrets, uploaded_file, images, i, attempt, response,
                 requests, waits, sleeps, all_data, outcomes, progress, df>>

\* The button is pressed on an uploaded file that convert_from_bytes turns
\* into n page images.
Run ==
  /\ pc = "ready"
  /\ \E n \in 0 .. MaxPages :
       /\ images' = [k \in 1 .. n |-> k]
       /\ pc' = IF n > 0 THEN "call" ELSE "aggregate"
  /\ uploaded_file' = "pdf"
  /\ all_data' = <<>>
  /\ progress' = <<0, 1>>
  /\ i' = 0
  /\ attempt' = 1
  /\ UNCHANGED <<secrets, client, response, requests, waits, sleeps,
                 outcomes, df, message>>

RunRasterizeFails_swallowed ==
  /\ pc = "ready"
  /\ uploaded_file' = "corrupt"
  /\ images' = <<>>
  /\ pc' = "aggregate"
  /\ UNCHANGED <<secrets, client, i, attempt, response, requests, waits,
                 sleeps, all_data, outcomes, progress, df, message>>

\* convert_from_bytes raises on an unreadable document: nothing catches it.
RunRasterizeFails ==
  /\ pc = "ready"
  /\ uploaded_file' = "corrupt"
  /\ pc' = "raster_error"
  /\ UNCHANGED <<secrets, client, images, i, attempt, response, requests,
                 waits, sleeps, all_data, outcomes, progress, df, message>>

\* One inference call for page i+1 and everything the script does with its
\* result up to the next call or timed wait.
Attempt ==
  /\ pc = "call"
  /\ \E r \in Replies :
       LET res == get_llm_extraction(r)
           page == i + 1
       IN  /\ response' = r
           /\ requests' = Append(requests, [page |-> page, ok |-> res.ok])
           /\ all_data' = Collect(all_data, res)
           /\ IF res.ok
              THEN /\ outcomes' = OnSuccess(outcomes, page)
                   /\ progress' = <<i + 1, Len(images)>>
                   /\ IF Len(images) > 1
                      THEN /\ pc' = "pace"
                           /\ UNCHANGED <<i, attempt, waits>>
                      ELSE /\ i' = NextIndex(i, FALSE)
                           /\ pc' = LoopPc(NextIndex(i, FALSE))
                           /\ attempt' = 1
                           /\ waits' = <<>>
              ELSE IF stop_after_attempt(attempt)
              THEN /\ outcomes' = OnException(outcomes, page)
                   /\ i' = NextIndex(i, TRUE)
                   /\ pc' = LoopPc(NextIndex(i, TRUE))
                   /\ attempt' = 1
                   /\ waits' = <<>>
                   /\ UNCHANGED progress
              ELSE /\ waits' = Append(waits, wait_exponential(attempt))
                   /\ pc' = "backoff"
                   /\ UNCHANGED <<i, attempt, outcomes, progress>>
  /\ UNCHANGED <<secrets, client, uploaded_file, images, sleeps, df, message>>

\* The backoff wait computed by the retry policy has elapsed.
Backoff ==
  /\ pc = "backoff"
  /\ attempt' = attempt + 1
  /\ pc' = "call"
  /\ UNCHANGED <<secrets, client, uploaded_file, images, i, response,
                 requests, waits, sleeps, all_data, outcomes, progress, df,
                 message>>

\* time.sleep(5) at the end of the try body has elapsed.
Pace ==
  /\ pc = "pace"
  /\ sleeps' = Append(sleeps, i + 1)
  /\ i' = NextIndex(i, FALSE)
  /\ pc' = LoopPc(NextIndex(i, FALSE))
  /\ attempt' = 1
  /\ waits' = <<>>
  /\ UNCHANGED <<secrets, client, uploaded_file, images, response,
                 requests, all_data, outcomes, progress, df, message>>

\* After the loop: the column guard and the export, or the empty-result
\* error.
Aggregate ==
  /\ pc = "aggregate"
  /\ IF all_data # <<>>
     THEN LET d == DataFrame(all_data)
          IN  IF d.raised
              THEN /\ pc' = "frame_error"
                   /\ UNCHANGED <<df, message>>
              ELSE /\ df' = ColumnGuard(d)
                   /\ message' = "Extraction Finished Successfully!"
                   /\ pc' = "table"
     ELSE /\ message' = "No data extracted"
          /\ pc' = "empty"
          /\ df' = df
  /\ UNCHANGED <<secrets, client, uploaded_file, images, i, attempt,
                 response, requests, waits, sleeps, all_data, outcomes,
                 progress>>

Next ==
  \/ Startup
  \/ Run
  \/ RunRasterizeFails
  \/ Attempt
  \/ Backoff
  \/ Pace
  \/ Aggregate

Spec == Init /\ [][Next]_vars

\* ------------------------------------------- the column guard on its own
\* Records over every key set drawn from three schema fields and one foreign
\* key, put through lines 88-93 and then through the guard a second time.
NormFields == <<"Buyer Name", "Order", "Product", "Remarks">>

FieldObject(K) ==
  LET ks == SelectSeq(NormFields, LAMBDA f : f \in K)
  IN  JObject([j \in 1 .. Len(ks) |-> <<ks[j], ks[j]>>])

NormInputs ==
  UNION { [1 .. n -> { FieldObject(K) : K \in SUBSET SeqToSet(NormFields) }]
          : n \in 1 .. MaxRecords }

InitNormalize ==
  /\ secrets = TRUE
  /\ client = TRUE
  /\ pc = "normalize"
  /\ uploaded_file = "pdf"
  /\ images = <<>>
  /\ i = 0
  /\ attempt = 1
  /\ response = NoReply
  /\ requests = <<>>
  /\ waits = <<>>
  /\ sleeps = <<>>
  /\ all_data \in NormInputs
  /\ outcomes = <<>>
  /\ progress = <<0, 1>>
  /\ df = NoFrame
  /\ message = "none"

Normalize ==
  /\ pc = "normalize"
  /\ df' = ColumnGuard(DataFrame(all_data))
  /\ pc' = "normalized"
  /\ UNCHANGED <<secrets, client, uploaded_file, images, i, attempt,
                 response, requests, waits, sleeps, all_data, outcomes,
                 progress, message>>

Renormalize ==
  /\ pc = "normalized"
  /\ df' = ColumnGuard(df)
  /\ pc' = "renormalized"
  /\ UNCHANGED <<secrets, client, uploaded_file, images, i, attempt,
                 response, requests, waits, sleeps, all_data, outcomes,
                 progress, message>>

NextNormalize ==
  \/ Normalize
  \/ Renormalize

SpecNormalize == InitNormalize /\ [][NextNormalize]_vars

\* ------------------------------------------------------ derived notions
Pages == 1 .. Len(images)

LoopDone == pc \in {"aggregate", "table", "empty", "frame_error"}

CallsOf(p) == { k \in 1 .. Len(requests) : requests[k].page = p }

FailsOf(p) == { k \in CallsOf(p) : ~requests[k].ok }

OksOf(p) == { k \in CallsOf(p) : requests[k].ok }

OutcomesOf(p) == { k \in 1 .. Len(outcomes) : outcomes[k].page = p }

KindsOf(p) == { outcomes[k].kind : k \in OutcomesOf(p) }

Successes == { k \in 1 .. Len(outcomes) : outcomes[k].kind = "Success" }

Failures == { k \in 1 .. Len(outcomes) : outcomes[k].kind = "Failure" }

\* ---------------------------------------------------------------- claims

\* C1: a page whose inference failed on all 3 attempts is recorded as a
\* failure, a page with a successful attempt is recorded as a success, and
\* when the loop is over every page of the document has been attempted.
C1_FailureIsolated ==
  /\ \A p \in Pages :
       /\ Cardinality(FailsOf(p)) = MaxAttempts => KindsOf(p) = {"Failure"}
       /\ OksOf(p) # {} => KindsOf(p) = {"Success"}
  /\ LoopDone => \A p \in Pages : CallsOf(p) # {}

C1_Witness ==
  /\ pc = "table"
  /\ Len(images) = 3
  /\ [k \in 1 .. Len(outcomes) |-> outcomes[k].kind]
       = <<"Success", "Failure", "Success">>
  /\ Cardinality(FailsOf(2)) = MaxAttempts
  /\ Len(df.rows) = 2

\* C2: when the loop is over there is exactly one outcome per page, in page
\* order, each a success or a failure, the successes are the records in
\* all_data, and successes + failures = number of pages.
C2_OneOutcomePerPage ==
  /\ \A k \in 1 .. Len(outcomes) :
       /\ outcomes[k].page = k
       /\ outcomes[k].kind \in {"Success", "Failure"}
  /\ Len(all_data) = Cardinality(Successes)
  /\ LoopDone =>
       /\ Len(outcomes) = Len(images)
       /\ \A p \in Pages : Cardinality(OutcomesOf(p)) = 1
       /\ Cardinality(Successes) + Cardinality(Failures) = Len(images)

C2_Witness ==
  /\ LoopDone
  /\ Len(images) = 3
  /\ Successes # {}
  /\ Failures # {}

\* C3: at most 3 inference calls per page, no call for a page after its
\* first successful one, and a failure outcome only after exactly 3 failed
\* calls.
C3_BoundedRetry ==
  \A p \in Pages :
    /\ Cardinality(CallsOf(p)) <= 3
    /\ \A k \in OksOf(p) : \A j \in CallsOf(p) : j <= k
    /\ "Failure" \in KindsOf(p) =>
         /\ Cardinality(FailsOf(p)) = 3
         /\ OksOf(p) = {}

C3_Witness ==
  /\ LoopDone
  /\ \E p \in Pages : "Failure" \in KindsOf(p) /\ Cardinality(CallsOf(p)) = 3
  /\ \E p \in Pages : OksOf(p) # {} /\ Cardinality(CallsOf(p)) = 2

\* C4 (as stated): after two failed attempts the wait before attempt 2 is at
\* least 10 and the wait before attempt 3 at least 20, non-decreasing and at
\* most 60.
C4_SecondWaitAtLeast20 ==
  /\ Len(waits) >= 1 => waits[1] >= 10
  /\ Len(waits) >= 2 => waits[2] >= 20 /\ waits[1] <= waits[2]
  /\ \A k \in 1 .. Len(waits) : waits[k] <= 60

\* C4 (amended): both waits are exactly the minimum wait 10, for 2 * 2^0 and
\* 2 * 2^1 lie below it; they are non-decreasing and at most 60.
C4_WaitsAreMinimum ==
  /\ Len(waits) <= 2
  /\ \A k \in 1 .. Len(waits) : waits[k] = 10 /\ waits[k] <= 60
  /\ Len(waits) >= 2 => waits[1] <= waits[2]

C4_Witness == pc = "backoff" /\ Len(waits) = 2 /\ attempt = 2

\* C5: in the final table every cell of a row holds the value the page's
\* reply gave for that field, or "Not Found" when the reply had no such
\* field, record by record.
C5_SentinelPerRecord ==
  pc = "table" =>
    \A r \in 1 .. Len(df.rows) : \A k \in 1 .. Len(target_cols) :
      df.rows[r][target_cols[k]] =
        IF all_data[r].kind = "object" /\ target_cols[k] \in Keys(all_data[r])
        THEN Str(Get(all_data[r], target_cols[k]))
        ELSE Str("Not Found")

\* C6: a result table has exactly the 16 schema columns in schema order,
\* and every row has a cell for exactly those columns, whatever keys the
\* replies had.
C6_SchemaColumns ==
  pc = "table" =>
    /\ df.columns = target_cols
    /\ \A r \in 1 .. Len(df.rows) : DOMAIN df.rows[r] = SeqToSet(target_cols)

C6_Witness ==
  /\ pc = "table"
  /\ \E k \in 1 .. Len(all_data) : "Remarks" \in Keys(all_data[k])
  /\ \E k \in 1 .. Len(all_data) :
       all_data[k].kind = "object"
       /\ ~(SeqToSet(target_cols) \subseteq Keys(all_data[k]))

\* C7: a reply that is a JSON object inside a markdown code fence is a
\* successful attempt whose record is the unwrapped object.
C7_FencedAccepted ==
  response.kind = "fenced" =>
    /\ requests[Len(requests)].ok
    /\ all_data # <<>>
    /\ all_data[Len(all_data)] = response.body

\* C8: a reply that is not a flat JSON object (no JSON, an array, a scalar)
\* is a failed attempt and never becomes a successful record.
C8_NonObjectRejected ==
  /\ \A k \in 1 .. Len(all_data) : all_data[k].kind = "object"
  /\ (response.kind \in {"json", "text"} /\ response.body.kind # "object")
       => ~requests[Len(requests)].ok

\* C9: before the first inference request for page p+1 the pacing delay has
\* elapsed after page p, whether page p succeeded or failed.
C9_DelayBeforeEveryNextPage ==
  \A p \in Pages :
    (p > 1 /\ CallsOf(p) # {}) => (p - 1) \in SeqToSet(sleeps)

\* C10: a one-page run has no pacing delay, and a run of N > 1 pages that all
\* succeed has exactly N-1 pacing delays, none after the last page.
C10_DelayOnlyBetweenPages ==
  (LoopDone /\ Failures = {}) =>
    /\ Len(images) = 1 => sleeps = <<>>
    /\ Len(images) > 1 =>
         /\ Len(sleeps) = Len(images) - 1
         /\ Len(images) \notin SeqToSet(sleeps)

\* C11: "No data extracted" is shown exactly when the run ends with no
\* successful page, only after every page was attempted and without a table;
\* a run that ends with at least one success produces a table instead.
C11_EmptyResultIffNoSuccess ==
  /\ message = "No data extracted" =>
       /\ LoopDone
       /\ Successes = {}
       /\ df = NoFrame
       /\ \A p \in Pages : CallsOf(p) # {}
  /\ (LoopDone /\ pc # "aggregate") =>
       IF Successes = {}
       THEN pc = "empty" /\ message = "No data extracted"
       ELSE pc = "table" /\ message # "No data extracted"

\* C12: the table has one row per successful page, in page order, each row
\* holding the values of that page's successful reply; when every inference
\* call of an N-page document succeeds the table has N rows.
C12_OneRowPerSuccess ==
  /\ pc = "table" =>
       /\ Len(df.rows) = Cardinality(Successes)
       /\ \A r \in 1 .. Len(df.rows) :
            \A c \in Keys(all_data[r]) \cap SeqToSet(target_cols) :
              df.rows[r][c] = Str(Get(all_data[r], c))
  /\ (LoopDone /\ pc # "aggregate" /\ Len(images) >= 1
        /\ \A k \in 1 .. Len(requests) : requests[k].ok) =>
       /\ pc = "table"
       /\ Len(df.rows) = Len(images)

\* C13: the column guard is idempotent: applied to its own output it returns
\* that output unchanged, for records over every key set of NormFields.
C13_Idempotent == [][pc = "normalized" => df' = df]_vars

C13_Witness ==
  /\ pc = "renormalized"
  /\ Len(all_data) = 2
  /\ Keys(all_data[1]) = {"Buyer Name", "Remarks"}
  /\ Keys(all_data[2]) = {"Product"}
  /\ df.columns = target_cols

\* C14: without the API key the script stops at startup: no client, no
\* rasterization, no inference call, no page outcome, and the only message
\* is the startup error.
C14_NoKeyStopsAtStartup ==
  ~secrets =>
    /\ pc \in {"startup", "stopped"}
    /\ client = FALSE
    /\ uploaded_file = "none"
    /\ images = <<>>
    /\ requests = <<>>
    /\ outcomes = <<>>
    /\ df = NoFrame
    /\ message = (IF pc = "stopped" THEN "API Key not found" ELSE "none")

C14_Witness == ~secrets /\ pc = "stopped" /\ message = "API Key not found"

\* C15: when rasterization of the uploaded document fails the run is over:
\* no inference call, no page outcome, no table and no empty-result message.
C15_RasterizationFatal ==
  uploaded_file = "corrupt" =>
    /\ pc = "raster_error"
    /\ images = <<>>
    /\ requests = <<>>
    /\ outcomes = <<>>
    /\ all_data = <<>>
    /\ df = NoFrame
    /\ message = "none"

C15_Witness == uploaded_file = "corrupt" /\ pc = "raster_error" /\ client

\* C16: inference requests are issued one at a time in page order: a step
\* issues at most one request, all requests for a page precede those for
\* the next page, and a page that has its outcome gets no further request.
C16_SequentialInPageOrder ==
  [][ /\ Len(requests') <= Len(requests) + 1
      /\ \A j, k \in 1 .. Len(requests') :
           j < k => requests'[j].page <= requests'[k].page
      /\ \A p \in Pages :
           KindsOf(p) # {} =>
             { k \in 1 .. Len(requests') : requests'[k].page = p } = CallsOf(p)
    ]_vars

C16_Witness ==
  /\ pc = "call"
  /\ i = 2
  /\ Cardinality(CallsOf(1)) = 3
  /\ KindsOf(1) = {"Failure"}
  /\ Cardinality(CallsOf(2)) = 2
  /\ KindsOf(2) = {"Success"}
  /\ CallsOf(3) = {}

\* C17: a run over a rasterized document ends in exactly one final status,
\* the result table or the empty-result message: once no call, wait or
\* aggregation is pending, the script is in one of these two.
C17_EndsInTableOrEmpty ==
  (uploaded_file = "pdf" /\ pc \notin {"call", "backoff", "pace", "aggregate"})
    => pc \in {"table", "empty"}

\* C18: a failed attempt and a page ending in failure leave all_data as it
\* was: nothing appended, nothing removed, no record altered; all_data only
\* ever grows by the value of a successful reply.
C18_FailureLeavesDataUnchanged ==
  [][ /\ (Len(requests') > Len(requests) /\ ~requests'[Len(requests')].ok)
           => all_data' = all_data
      /\ (Len(outcomes') > Len(outcomes)
            /\ outcomes'[Len(outcomes')].kind = "Failure")
           => all_data' = all_data
      /\ (pc = "call" /\ all_data' # all_data)
           => /\ requests'[Len(requests')].ok
              /\ all_data' = Append(all_data, response'.body)
    ]_vars

C18_Witness ==
  /\ Len(outcomes) = 2
  /\ outcomes[1].kind = "Success"
  /\ outcomes[2].kind = "Failure"
  /\ Len(all_data) = 1
  /\ response.kind = "fenced"

\* C19: after each processed page, whatever its outcome, the progress shown
\* is (pages processed) / (pages of the document), and it is 1 when the loop
\* has ended.
C19_ProgressEveryPage ==
  /\ Len(outcomes) >= 1 => progress = <<Len(outcomes), Len(images)>>
  /\ (LoopDone /\ Len(images) >= 1) => progress[1] = progress[2]

====
